---- MODULE Spec2Model ----
(***************************************************************************)
(* Model of examples/generate_graphs.py: the two log scans                 *)
(* (parse_energy_log, parse_pdr_log), the derived series computed by the   *)
(* plot functions, and the control flow of main.                           *)
(*                                                                         *)
(* A log line is a sequence of lexical fields separated by arbitrary text; *)
(* the three regular expressions are modelled by what re.search finds on   *)
(* such a line (leftmost start, greedy ".*").  Captured numbers are kept   *)
(* as text (sequences of characters of the class [\d.]) and converted by   *)
(* int / float as Python does, float raising ValueError on text that is    *)
(* not a number.  Float values are exact in units of one tenth; the        *)
(* quotient total / num_nodes is kept as an exact fraction.                *)
(***************************************************************************)
EXTENDS Integers, Sequences, FiniteSets, TLC

VARIABLES fileExists, file, pc, lineno, ret, times, node_energy,
          times_pdr, pdr_values, plotted, avg_energy, node_ids, lifetimes,
          charts, opened, err

vars == <<fileExists, file, pc, lineno, ret, times, node_energy,
          times_pdr, pdr_values, plotted, avg_energy, node_ids, lifetimes,
          charts, opened, err>>

\* ------------------------------------------------------------------ bounds
MaxLines == 3

\* ------------------------------------------------------- program constants
\* sorted(node_energy.keys())[:10]
MaxPlottedNodes == 10

\* ---------------------------------------------------------------- helpers
Min(a, b) == IF a < b THEN a ELSE b

Take(s, n) == SubSeq(s, 1, Min(n, Len(s)))

Range(s) == {s[k] : k \in 1..Len(s)}

\* ----------------------------------------------------- number conversion
DigitVal(c) ==
    CASE c = "0" -> 0 [] c = "1" -> 1 [] c = "2" -> 2 [] c = "3" -> 3
      [] c = "4" -> 4 [] c = "5" -> 5 [] c = "6" -> 6 [] c = "7" -> 7
      [] c = "8" -> 8 [] c = "9" -> 9

RECURSIVE int(_)
\* int(match.group(1)) on a capture of \d+ : base-10 value, leading zeros dropped
int(txt) ==
    IF txt = <<>> THEN 0
    ELSE 10 * int(SubSeq(txt, 1, Len(txt) - 1)) + DigitVal(txt[Len(txt)])

DotPositions(txt) == {k \in 1..Len(txt) : txt[k] = "."}

\* float(text) on a capture of [\d.]+ : <<>> when Python raises ValueError
\* (more than one dot, or no digit), else <<v>> with v the value in tenths.
\* The numbers of LogLines carry at most one fractional digit.
float(txt) ==
    LET dots == DotPositions(txt) IN
    IF Cardinality(dots) > 1 \/ Len(txt) - Cardinality(dots) = 0 THEN <<>>
    ELSE IF dots = {} THEN <<10 * int(txt)>>
    ELSE LET d    == CHOOSE k \in dots : TRUE
             frac == SubSeq(txt, d + 1, Len(txt))
         IN  <<10 * int(SubSeq(txt, 1, d - 1))
                 + (IF frac = <<>> THEN 0 ELSE DigitVal(frac[1]))>>

\* ------------------------------------------------------------ log lines
\* A field of a line: k is the literal that introduces it, txt the run of
\* characters after it.
Fld(k, txt) == [k |-> k, txt |-> txt]

NodeF(txt)      == Fld("Node", txt)        \* "Node <txt>:"
EnergyF(txt)    == Fld("Energy", txt)      \* "Energy=<txt>J"
RemainingF(txt) == Fld("Remaining", txt)   \* "Remaining=<txt>J"
PowerF(txt)     == Fld("Power", txt)       \* "Power=<txt>J"
TimeF(txt)      == Fld("Time", txt)        \* "Time: <txt>"
PDRF(txt)       == Fld("PDR", txt)         \* "PDR: <txt>"
timeF(txt)      == Fld("time", txt)        \* "time <txt>"

LogLines ==
    { <<NodeF(<<"2">>), PowerF(<<"1">>)>>,                     \* Node 2: Power=1J
      <<TimeF(<<"1">>)>>,                                      \* Time: 1
      <<NodeF(<<"1">>), EnergyF(<<"2", ".", "5">>)>>,          \* Node 1: Energy=2.5J
      <<NodeF(<<"2">>), RemainingF(<<"1">>)>>,                 \* Node 2: tx Remaining=1J
      <<TimeF(<<"2", ".", "5">>), NodeF(<<"1">>), EnergyF(<<"1">>)>>,
                                                               \* Time: 2.5 Node 1: Energy=1J
      <<NodeF(<<"0", "1">>), EnergyF(<<"3">>), RemainingF(<<".", "5">>)>>,
                                                               \* Node 01: Energy=3J, Remaining=.5J
      <<TimeF(<<"1", ".", "0", ".">>)>>,                       \* Time: 1.0.
      <<PDRF(<<"1">>), timeF(<<"2", ".", "5">>)>>,             \* PDR: 1 at time 2.5
      <<PDRF(<<".", "5">>)>>,                                  \* PDR: .5
      <<timeF(<<"1">>)>>,                                      \* at time 1
      <<PDRF(<<".", "5">>), timeF(<<"1", ".", "0", ".">>)>>    \* PDR: .5 at time 1.0.
    }

RECURSIVE SeqsUpTo(_, _)
SeqsUpTo(S, n) ==
    IF n = 0 THEN {<<>>}
    ELSE LET shorter == SeqsUpTo(S, n - 1)
         IN  shorter \cup {Append(s, x) : s \in shorter, x \in S}

Logs == SeqsUpTo(LogLines, MaxLines)

\* ------------------------------------------------------- pattern matching
FieldsOf(line, kinds) == {k \in 1..Len(line) : line[k].k \in kinds}

SetMin(S) == CHOOSE x \in S : \A y \in S : x <= y
SetMax(S) == CHOOSE x \in S : \A y \in S : x >= y

\* re.search(r'Node (\d+):.*(?:Energy|Remaining)=([\d.]+)J', line)
EnergyMatch(line) ==
    LET labels == FieldsOf(line, {"Energy", "Remaining"})
        starts == {a \in FieldsOf(line, {"Node"}) : \E b \in labels : a < b}
    IN  IF starts = {} THEN <<>>
        ELSE <<[g1 |-> line[SetMin(starts)].txt,
                g2 |-> line[SetMax(labels)].txt]>>

\* re.search(r'Time: ([\d.]+)', line)
TimeMatch(line) ==
    LET hits == FieldsOf(line, {"Time"})
    IN  IF hits = {} THEN <<>> ELSE <<[g1 |-> line[SetMin(hits)].txt]>>

\* re.search(r'PDR: ([\d.]+).*time ([\d.]+)', line)
PdrMatch(line) ==
    LET tails  == FieldsOf(line, {"time"})
        starts == {a \in FieldsOf(line, {"PDR"}) : \E b \in tails : a < b}
    IN  IF starts = {} THEN <<>>
        ELSE <<[g1 |-> line[SetMin(starts)].txt,
                g2 |-> line[SetMax(tails)].txt]>>

\* --------------------------------------------- defaultdict(list) node_energy
\* The mapping is a sequence of entries in insertion order.
Keys(d) == [k \in 1..Len(d) |-> d[k].id]

KeySet(d) == {d[k].id : k \in 1..Len(d)}

\* node_energy[nid] read: an absent key is created with an empty list
Touch(d, nid) ==
    IF nid \in KeySet(d) THEN d ELSE Append(d, [id |-> nid, energies |-> <<>>])

GetItem(d, nid) ==
    IF nid \in KeySet(d)
    THEN d[CHOOSE k \in 1..Len(d) : d[k].id = nid].energies
    ELSE <<>>

RECURSIVE TouchAll(_, _)
TouchAll(d, nids) ==
    IF nids = <<>> THEN d ELSE TouchAll(Touch(d, Head(nids)), Tail(nids))

\* node_energy[node_id].append(energy)
AppendEnergy(d, nid, energy) ==
    LET t == Touch(d, nid)
    IN  [k \in 1..Len(t) |->
            IF t[k].id = nid
            THEN [id |-> nid, energies |-> Append(t[k].energies, energy)]
            ELSE t[k]]

\* ------------------------------------------------------ parse_energy_log
\* Body of the loop of parse_energy_log for one line.  raised is TRUE when a
\* float() conversion raised ValueError; what was appended before stays.
EnergyLineStep_elif(line, ts, d) ==
    LET match      == EnergyMatch(line)
        time_match == TimeMatch(line)
        energy     == IF match = <<>> THEN <<>> ELSE float(match[1].g2)
        t          == IF time_match = <<>> THEN <<>> ELSE float(time_match[1].g1)
    IN  IF match # <<>>
        THEN IF energy = <<>>
             THEN [times |-> ts, node_energy |-> d, raised |-> TRUE]
             ELSE [times |-> ts,
                   node_energy |-> AppendEnergy(d, int(match[1].g1), energy[1]),
                   raised |-> FALSE]
        ELSE IF time_match # <<>> /\ t = <<>>
        THEN [times |-> ts, node_energy |-> d, raised |-> TRUE]
        ELSE [times |-> IF time_match = <<>> THEN ts ELSE Append(ts, t[1]),
              node_energy |-> d, raised |-> FALSE]

EnergyLineStep(line, ts, d) ==
    LET match      == EnergyMatch(line)
        time_match == TimeMatch(line)
        energy     == IF match = <<>> THEN <<>> ELSE float(match[1].g2)
        d1         == IF match = <<>> \/ energy = <<>> THEN d
                      ELSE AppendEnergy(d, int(match[1].g1), energy[1])
        t          == IF time_match = <<>> THEN <<>> ELSE float(time_match[1].g1)
    IN  IF match # <<>> /\ energy = <<>>
        THEN [times |-> ts, node_energy |-> d, raised |-> TRUE]
        ELSE IF time_match # <<>> /\ t = <<>>
        THEN [times |-> ts, node_energy |-> d1, raised |-> TRUE]
        ELSE [times |-> IF time_match = <<>> THEN ts ELSE Append(ts, t[1]),
              node_energy |-> d1, raised |-> FALSE]

\* --------------------------------------------------------- parse_pdr_log
\* Body of the loop of parse_pdr_log for one line.
PdrLineStep_partial(line, ts, vs) ==
    LET ratios == FieldsOf(line, {"PDR"})
        tails  == FieldsOf(line, {"time"})
        v      == IF ratios = {} THEN <<>> ELSE float(line[SetMin(ratios)].txt)
        t      == IF tails = {} THEN <<>> ELSE float(line[SetMax(tails)].txt)
    IN  IF (ratios # {} /\ v = <<>>) \/ (tails # {} /\ t = <<>>)
        THEN [times |-> ts, pdr_values |-> vs, raised |-> TRUE]
        ELSE [times |-> IF tails = {} THEN ts ELSE Append(ts, t[1]),
              pdr_values |-> IF ratios = {} THEN vs ELSE Append(vs, v[1]),
              raised |-> FALSE]

PdrLineStep(line, ts, vs) ==
    LET match == PdrMatch(line)
        v     == IF match = <<>> THEN <<>> ELSE float(match[1].g1)
        t     == IF match = <<>> THEN <<>> ELSE float(match[1].g2)
    IN  IF match = <<>>
        THEN [times |-> ts, pdr_values |-> vs, raised |-> FALSE]
        ELSE IF v = <<>>
        THEN [times |-> ts, pdr_values |-> vs, raised |-> TRUE]
        ELSE IF t = <<>>
        THEN [times |-> ts, pdr_values |-> Append(vs, v[1]), raised |-> TRUE]
        ELSE [times |-> Append(ts, t[1]), pdr_values |-> Append(vs, v[1]),
              raised |-> FALSE]

\* ------------------------------------------------ plot_energy_consumption
sorted(s) == SortSeq(s, LAMBDA a, b : a < b)

\* the keys the loop of plot_energy_consumption reads
ConsumptionKeys(d) == Take(sorted(Keys(d)), MaxPlottedNodes)

PlottedNodes_unchecked(ts, d) == ConsumptionKeys(d)

\* the nodes for which plt.plot is called, in call order
PlottedNodes(ts, d) ==
    SelectSeq(ConsumptionKeys(d), LAMBDA nid : Len(GetItem(d, nid)) = Len(ts))

\* ---------------------------------------------------- plot_average_energy
RECURSIVE SumAt(_, _, _)
\* sum(node_energy[nid][i] for nid in nids if i < len(node_energy[nid])),
\* i counted from 0 as in the source
SumAt(d, nids, i) ==
    IF nids = <<>> THEN 0
    ELSE (IF i < Len(GetItem(d, Head(nids)))
          THEN GetItem(d, Head(nids))[i + 1] ELSE 0)
         + SumAt(d, Tail(nids), i)

\* total / num_nodes if num_nodes > 0 else 0, as an exact fraction
Quotient(total, num_nodes) ==
    IF num_nodes > 0 THEN [num |-> total, den |-> num_nodes]
    ELSE [num |-> 0, den |-> 1]

AverageKeys_range(ts, d) ==
    IF d = <<>> \/ ts = <<>> THEN <<>> ELSE [k \in 1..Len(d) |-> k]

\* the keys read through node_energy[nid] while averaging
AverageKeys(ts, d) == IF d = <<>> \/ ts = <<>> THEN <<>> ELSE Keys(d)

AvgEnergy_contributing(ts, d) ==
    IF d = <<>> THEN <<>>
    ELSE << [k \in 1..Len(ts) |->
               Quotient(SumAt(d, Keys(d), k - 1),
                        Cardinality({j \in 1..Len(d) : k - 1 < Len(d[j].energies)}))] >>

AvgEnergy_zeros(ts, d) ==
    IF d = <<>> THEN << [k \in 1..Len(ts) |-> [num |-> 0, den |-> 1]] >>
    ELSE << [k \in 1..Len(ts) |-> Quotient(SumAt(d, Keys(d), k - 1), Len(d))] >>

AvgEnergy_shortest(ts, d) ==
    IF d = <<>> THEN <<>>
    ELSE << [k \in 1..Min(Len(ts), Len(d[1].energies)) |->
               Quotient(SumAt(d, Keys(d), k - 1), Len(d))] >>

\* avg_energy after the "if node_energy:" block: <<>> when the name was
\* never bound, <<list>> otherwise
AvgEnergy(ts, d) ==
    IF d = <<>> THEN <<>>
    ELSE LET num_nodes == Len(d)
         IN  << [k \in 1..Len(ts) |->
                    Quotient(SumAt(d, AverageKeys(ts, d), k - 1), num_nodes)] >>

\* -------------------------------------------------- plot_network_lifetime
NodeLifetime_depletion(energies) ==
    IF energies = <<>> THEN 0
    ELSE SetMin({k \in 1..Len(energies) :
                   \A j \in 1..Len(energies) : energies[k] <= energies[j]})

\* lifetime = len(energies)
NodeLifetime(energies) == Len(energies)

LifetimeKeys(d) == sorted(Keys(d))

Lifetimes(d) ==
    [k \in 1..Len(d) |-> NodeLifetime(GetItem(d, LifetimeKeys(d)[k]))]

\* ------------------------------------------------------------------ main
\* "if times and node_energy:"
EnergyChartsGuard(ts, d) == ts # <<>> /\ d # <<>>

\* "if times_pdr and pdr_values:"
PdrChartGuard(ts, vs) == ts # <<>> /\ vs # <<>>

Init ==
    /\ fileExists \in BOOLEAN
    /\ file \in Logs
    /\ (~fileExists => file = <<>>)
    /\ pc = "main"
    /\ lineno = 0
    /\ ret = "unset"
    /\ times = <<>>
    /\ node_energy = <<>>
    /\ times_pdr = <<>>
    /\ pdr_values = <<>>
    /\ plotted = <<>>
    /\ avg_energy = <<>>
    /\ node_ids = <<>>
    /\ lifetimes = <<>>
    /\ charts = {}
    /\ opened = 0
    /\ err = "none"

\* parse_energy_log up to the loop: the existence test and open()
parse_energy_log_enter ==
    /\ pc = "main"
    /\ IF ~fileExists
       THEN /\ ret' = "None"
            /\ pc' = "check"
            /\ UNCHANGED <<opened, lineno>>
       ELSE /\ opened' = opened + 1
            /\ lineno' = 1
            /\ pc' = "energy_scan"
            /\ ret' = ret
    /\ UNCHANGED <<fileExists, file, times, node_energy, times_pdr, pdr_values,
                   plotted, avg_energy, node_ids, lifetimes, charts, err>>

\* one iteration of "for line in f" in parse_energy_log
parse_energy_log_line ==
    /\ pc = "energy_scan"
    /\ lineno <= Len(file)
    /\ LET r == EnergyLineStep(file[lineno], times, node_energy)
       IN  /\ times' = r.times
           /\ node_energy' = r.node_energy
           /\ IF r.raised
              THEN pc' = "raised" /\ err' = "ValueError" /\ lineno' = lineno
              ELSE pc' = pc /\ err' = err /\ lineno' = lineno + 1
    /\ UNCHANGED <<fileExists, file, ret, times_pdr, pdr_values, plotted,
                   avg_energy, node_ids, lifetimes, charts, opened>>

\* "return times, node_energy"
parse_energy_log_return ==
    /\ pc = "energy_scan"
    /\ lineno > Len(file)
    /\ ret' = "tuple"
    /\ pc' = "check"
    /\ UNCHANGED <<fileExists, file, lineno, times, node_energy, times_pdr,
                   pdr_values, plotted, avg_energy, node_ids, lifetimes,
                   charts, opened, err>>

main_check_none_fallthrough ==
    /\ pc = "check"
    /\ pc' = "plots"
    /\ UNCHANGED <<fileExists, file, lineno, ret, times, node_energy,
                   times_pdr, pdr_values, plotted, avg_energy, node_ids,
                   lifetimes, charts, opened, err>>

\* "if times is None: return"
main_check_none ==
    /\ pc = "check"
    /\ pc' = IF ret = "None" THEN "done" ELSE "plots"
    /\ UNCHANGED <<fileExists, file, lineno, ret, times, node_energy,
                   times_pdr, pdr_values, plotted, avg_energy, node_ids,
                   lifetimes, charts, opened, err>>

plot_energy_consumption ==
    /\ pc = "plots"
    /\ EnergyChartsGuard(times, node_energy)
    /\ plotted' = PlottedNodes(times, node_energy)
    /\ node_energy' = TouchAll(node_energy, ConsumptionKeys(node_energy))
    /\ charts' = charts \cup {"energy_consumption.png"}
    /\ pc' = "plot_avg"
    /\ UNCHANGED <<fileExists, file, lineno, ret, times, times_pdr, pdr_values,
                   avg_energy, node_ids, lifetimes, opened, err>>

\* the body of plot_average_energy, continuing at next
AverageEnergyBody(next) ==
    /\ avg_energy' = AvgEnergy(times, node_energy)
    /\ node_energy' = TouchAll(node_energy, AverageKeys(times, node_energy))
    /\ charts' = charts \cup {"average_energy.png"}
    /\ pc' = next
    /\ UNCHANGED <<fileExists, file, lineno, ret, times, times_pdr, pdr_values,
                   plotted, node_ids, lifetimes, opened, err>>

plot_average_energy ==
    /\ pc = "plot_avg"
    /\ AverageEnergyBody("plot_lifetime")

plot_network_lifetime ==
    /\ pc = "plot_lifetime"
    /\ node_ids' = LifetimeKeys(node_energy)
    /\ lifetimes' = Lifetimes(node_energy)
    /\ node_energy' = TouchAll(node_energy, LifetimeKeys(node_energy))
    /\ charts' = charts \cup {"network_lifetime.png"}
    /\ pc' = "pdr"
    /\ UNCHANGED <<fileExists, file, lineno, ret, times, times_pdr, pdr_values,
                   plotted, avg_energy, opened, err>>

\* the "if times and node_energy:" block is skipped
skip_energy_charts ==
    /\ pc = "plots"
    /\ ~EnergyChartsGuard(times, node_energy)
    /\ pc' = "pdr"
    /\ UNCHANGED <<fileExists, file, lineno, ret, times, node_energy,
                   times_pdr, pdr_values, plotted, avg_energy, node_ids,
                   lifetimes, charts, opened, err>>

\* parse_pdr_log up to the loop: open() without an existence test
parse_pdr_log_enter ==
    /\ pc = "pdr"
    /\ opened' = opened + 1
    /\ IF fileExists
       THEN pc' = "pdr_scan" /\ lineno' = 1 /\ err' = err
       ELSE pc' = "raised" /\ lineno' = lineno /\ err' = "FileNotFoundError"
    /\ UNCHANGED <<fileExists, file, ret, times, node_energy, times_pdr,
                   pdr_values, plotted, avg_energy, node_ids, lifetimes, charts>>

\* one iteration of "for line in f" in parse_pdr_log
parse_pdr_log_line ==
    /\ pc = "pdr_scan"
    /\ lineno <= Len(file)
    /\ LET r == PdrLineStep(file[lineno], times_pdr, pdr_values)
       IN  /\ times_pdr' = r.times
           /\ pdr_values' = r.pdr_values
           /\ IF r.raised
              THEN pc' = "raised" /\ err' = "ValueError" /\ lineno' = lineno
              ELSE pc' = pc /\ err' = err /\ lineno' = lineno + 1
    /\ UNCHANGED <<fileExists, file, ret, times, node_energy, plotted,
                   avg_energy, node_ids, lifetimes, charts, opened>>

\* "return times, pdr_values"
parse_pdr_log_return ==
    /\ pc = "pdr_scan"
    /\ lineno > Len(file)
    /\ pc' = "pdr_check"
    /\ UNCHANGED <<fileExists, file, lineno, ret, times, node_energy,
                   times_pdr, pdr_values, plotted, avg_energy, node_ids,
                   lifetimes, charts, opened, err>>

plot_packet_delivery_ratio ==
    /\ pc = "pdr_check"
    /\ PdrChartGuard(times_pdr, pdr_values)
    /\ charts' = charts \cup {"pdr_graph.png"}
    /\ pc' = "comparison"
    /\ UNCHANGED <<fileExists, file, lineno, ret, times, node_energy,
                   times_pdr, pdr_values, plotted, avg_energy, node_ids,
                   lifetimes, opened, err>>

skip_pdr_chart ==
    /\ pc = "pdr_check"
    /\ ~PdrChartGuard(times_pdr, pdr_values)
    /\ pc' = "comparison"
    /\ UNCHANGED <<fileExists, file, lineno, ret, times, node_energy,
                   times_pdr, pdr_values, plotted, avg_energy, node_ids,
                   lifetimes, charts, opened, err>>

plot_energy_efficiency_comparison ==
    /\ pc = "comparison"
    /\ charts' = charts \cup {"energy_efficiency.png"}
    /\ pc' = "done"
    /\ UNCHANGED <<fileExists, file, lineno, ret, times, node_energy,
                   times_pdr, pdr_values, plotted, avg_energy, node_ids,
                   lifetimes, opened, err>>

Next ==
    \/ parse_energy_log_enter
    \/ parse_energy_log_line
    \/ parse_energy_log_return
    \/ main_check_none
    \/ plot_energy_consumption
    \/ plot_average_energy
    \/ plot_network_lifetime
    \/ skip_energy_charts
    \/ parse_pdr_log_enter
    \/ parse_pdr_log_line
    \/ parse_pdr_log_return
    \/ plot_packet_delivery_ratio
    \/ skip_pdr_chart
    \/ plot_energy_efficiency_comparison

Spec == Init /\ [][Next]_vars

\* ======================================================= properties
Prefix(n) == SubSeq(file, 1, n)

\* the energy scan is in its loop or has returned to main
EnergyScanLive == pc = "energy_scan" \/ ret = "tuple"

\* number of lines the energy scan has completed
EnergyProcessed == IF pc = "energy_scan" THEN lineno - 1 ELSE Len(file)

\* the PDR scan is in its loop or has returned to main
PdrScanLive == pc \in {"pdr_scan", "pdr_check", "comparison", "done"} /\ ret = "tuple"

PdrProcessed == IF pc = "pdr_scan" THEN lineno - 1 ELSE Len(file)

TimeLines(P) == SelectSeq(P, LAMBDA l : TimeMatch(l) # <<>>)

EnergyLinesOf(P, n) ==
    SelectSeq(P, LAMBDA l : EnergyMatch(l) # <<>> /\ int(EnergyMatch(l)[1].g1) = n)

NodesNamedIn(P) ==
    {int(EnergyMatch(P[k])[1].g1) : k \in {j \in 1..Len(P) : EnergyMatch(P[j]) # <<>>}}

\* a line with a PDR ratio and, after it, a lower-case time value
CarriesBoth(l) ==
    \E a, b \in 1..Len(l) : a < b /\ l[a].k = "PDR" /\ l[b].k = "time"

PdrLines(P) == SelectSeq(P, CarriesBoth)

\* C8: while parse_energy_log runs and after it has returned, times is the
\* time values of the time-matching lines read so far, in log order, and each
\* node's list is the energy values of the lines whose energy match names that
\* node, in log order; the two matches of a line do not influence each other.
C8_EnergyAndTimeIndependent ==
    EnergyScanLive =>
        LET P == Prefix(EnergyProcessed)
            T == TimeLines(P)
        IN  /\ Len(times) = Len(T)
            /\ \A k \in 1..Len(T) : times[k] = float(TimeMatch(T[k])[1].g1)[1]
            /\ KeySet(node_energy) = NodesNamedIn(P)
            /\ \A n \in NodesNamedIn(P) :
                 LET E == EnergyLinesOf(P, n)
                     got == GetItem(node_energy, n)
                 IN  /\ Len(got) = Len(E)
                     /\ \A k \in 1..Len(E) :
                          got[k] = float(EnergyMatch(E[k])[1].g2)[1]

\* the scan has returned after reading a line matching both patterns, one
\* matching only the time pattern and one matching only the energy pattern
C8_Witness ==
    /\ ret = "tuple"
    /\ \E a, b, c \in 1..Len(file) :
         /\ EnergyMatch(file[a]) # <<>> /\ TimeMatch(file[a]) # <<>>
         /\ EnergyMatch(file[b]) = <<>> /\ TimeMatch(file[b]) # <<>>
         /\ EnergyMatch(file[c]) # <<>> /\ TimeMatch(file[c]) = <<>>
    /\ Len(times) = 2

\* C7: while parse_pdr_log runs and after it has returned, times and
\* pdr_values have the same length, the number of lines read so far that carry
\* both a ratio and a following time value, and row k of both lists comes from
\* the k-th such line.
C7_PdrRowsAtomic ==
    PdrScanLive =>
        LET R == PdrLines(Prefix(PdrProcessed))
        IN  /\ Len(times_pdr) = Len(R)
            /\ Len(pdr_values) = Len(R)
            /\ \A k \in 1..Len(R) :
                 /\ pdr_values[k] = float(PdrMatch(R[k])[1].g1)[1]
                 /\ times_pdr[k] = float(PdrMatch(R[k])[1].g2)[1]

\* the PDR scan has returned after reading a ratio-only line, a time-only line
\* and a line with both
C7_Witness ==
    /\ pc = "pdr_check"
    /\ Len(pdr_values) = 1
    /\ \E a, b \in 1..Len(file) :
         /\ Len(file[a]) = 1 /\ file[a][1].k = "PDR"
         /\ Len(file[b]) = 1 /\ file[b][1].k = "time"

\* C6: once plot_network_lifetime has run, node_ids lists exactly the nodes
\* named by an energy match of the log, each once, and lifetimes[k] is the
\* number of lines whose energy match names node_ids[k], wherever those lines
\* stand among the lines of other nodes.
C6_LifetimeIsMatchCount ==
    "network_lifetime.png" \in charts =>
        /\ Range(node_ids) = NodesNamedIn(file)
        /\ Len(node_ids) = Cardinality(NodesNamedIn(file))
        /\ Len(lifetimes) = Len(node_ids)
        /\ \A k \in 1..Len(node_ids) :
             lifetimes[k] =
               Cardinality({j \in 1..Len(file) :
                              /\ EnergyMatch(file[j]) # <<>>
                              /\ int(EnergyMatch(file[j])[1].g1) = node_ids[k]})

\* lifetimes computed for two nodes with different counts, the lines of node 2
\* standing between the lines of node 1
C6_Witness ==
    /\ "network_lifetime.png" \in charts
    /\ node_ids = <<1, 2>>
    /\ lifetimes = <<2, 1>>
    /\ Len(file) = 3
    /\ EnergyMatch(file[2]) # <<>>
    /\ int(EnergyMatch(file[2])[1].g1) = 2

\* ------------------------------------ plot_average_energy called directly
MaxReadings == 3

EnergyValues == {10, 25}

NodeIds == {1, 2}

EnergyMaps ==
    LET lists == SeqsUpTo(EnergyValues, MaxReadings)
    IN  {<<>>}
        \cup {<<[id |-> n, energies |-> e]>> : n \in NodeIds, e \in lists}
        \cup {<<[id |-> n, energies |-> e], [id |-> m, energies |-> f]>> :
                 n \in NodeIds, m \in NodeIds, e \in lists, f \in lists}

InitAgg ==
    /\ fileExists = TRUE
    /\ file = <<>>
    /\ pc = "agg_call"
    /\ lineno = 0
    /\ ret = "unset"
    /\ times \in SeqsUpTo(EnergyValues, MaxLines)
    /\ node_energy \in EnergyMaps
    /\ Cardinality(KeySet(node_energy)) = Len(node_energy)
    /\ times_pdr = <<>>
    /\ pdr_values = <<>>
    /\ plotted = <<>>
    /\ avg_energy = <<>>
    /\ node_ids = <<>>
    /\ lifetimes = <<>>
    /\ charts = {}
    /\ opened = 0
    /\ err = "none"

call_plot_average_energy ==
    /\ pc = "agg_call"
    /\ AverageEnergyBody("agg_returned")

NextAgg == call_plot_average_energy

SpecAgg == InitAgg /\ [][NextAgg]_vars

\* sum of the readings at index i (from 0) of the nodes in S
RECURSIVE ReadingsSum(_, _)
ReadingsSum(S, i) ==
    IF S = {} THEN 0
    ELSE LET n == CHOOSE x \in S : TRUE
         IN  GetItem(node_energy, n)[i + 1] + ReadingsSum(S \ {n}, i)

\* the nodes whose list has more than i readings
Contributing(i) == {n \in KeySet(node_energy) : Len(GetItem(node_energy, n)) > i}

\* C3: for a non-empty node_energy, the average at every time index i is the
\* sum of the readings at i of the nodes that have more than i readings,
\* divided by the number of all nodes of node_energy.
C3_AverageOverAllNodes ==
    (avg_energy # <<>> /\ node_energy # <<>>) =>
        \A i \in 0..(Len(times) - 1) :
            LET a == avg_energy[1][i + 1]
            IN  /\ a.den > 0
                /\ a.num * Cardinality(KeySet(node_energy))
                     = ReadingsSum(Contributing(i), i) * a.den

\* an average computed at an index where one node has a reading and another
\* has none
C3_Witness ==
    /\ avg_energy # <<>>
    /\ \E i \in 0..(Len(times) - 1) :
         /\ Contributing(i) # {}
         /\ Contributing(i) # KeySet(node_energy)
         /\ avg_energy[1][i + 1].num > 0

\* C4 as stated: for an empty node_energy the average series is the list of
\* zeros, one per time marker.
C4_ZerosForEmptyEnergy ==
    (pc = "agg_returned" /\ node_energy = <<>>) =>
        avg_energy = << [k \in 1..Len(times) |-> [num |-> 0, den |-> 1]] >>

\* C4 amended: for an empty node_energy plot_average_energy binds no average
\* series at all, whatever the length of times; the chart is saved and no
\* error is raised.
C4_NoAverageForEmptyEnergy ==
    (pc = "agg_returned" /\ node_energy = <<>>) =>
        /\ avg_energy = <<>>
        /\ "average_energy.png" \in charts
        /\ err = "none"

\* plot_average_energy has returned from a call with an empty node_energy and
\* two time markers
C4_Witness ==
    /\ pc = "agg_returned"
    /\ node_energy = <<>>
    /\ Len(times) = 2

EnergyCharts == {"energy_consumption.png", "average_energy.png", "network_lifetime.png"}

\* C1 as stated: when the file exists and main returns, the three energy
\* charts were produced if node_energy is non-empty, the PDR chart if a PDR
\* row was extracted, and the efficiency chart in any case.
C1_ChartsWheneverDataFound ==
    (pc = "done" /\ ret = "tuple") =>
        /\ (node_energy # <<>> => EnergyCharts \subseteq charts)
        /\ (pdr_values # <<>> => "pdr_graph.png" \in charts)
        /\ "energy_efficiency.png" \in charts

\* C2: when the file does not exist, main only ever tests for the sentinel
\* and returns: no open(), no PDR scan, no chart, no exception.
C2_MissingFileCleanExit ==
    ~fileExists =>
        /\ pc \in {"main", "check", "done"}
        /\ (pc # "main" => ret = "None")
        /\ opened = 0
        /\ lineno = 0
        /\ charts = {}
        /\ times_pdr = <<>> /\ pdr_values = <<>>
        /\ err = "none"

\* main has returned on a missing file
C2_Witness == ~fileExists /\ pc = "done"

\* C9: once plot_energy_consumption has saved its chart, no node whose list
\* length differs from len(times) was plotted, every node with a matching
\* length among the examined keys was, and main has gone on: the average and
\* lifetime charts follow without an error, then the PDR scan, and the
\* comparison chart when main returns.
C9_MismatchExcludedRunContinues ==
    "energy_consumption.png" \in charts =>
        /\ \A n \in KeySet(node_energy) :
             Len(GetItem(node_energy, n)) # Len(times) => n \notin Range(plotted)
        /\ \A n \in Range(ConsumptionKeys(node_energy)) :
             Len(GetItem(node_energy, n)) = Len(times) => n \in Range(plotted)
        /\ pc \in {"plot_avg", "plot_lifetime", "pdr", "pdr_scan", "pdr_check",
                   "comparison", "done", "raised"}
        /\ (pc # "plot_avg" => "average_energy.png" \in charts)
        /\ (pc \notin {"plot_avg", "plot_lifetime"} => "network_lifetime.png" \in charts)
        /\ (pc = "raised" => lineno >= 1 /\ PdrMatch(file[lineno]) # <<>>)
        /\ (pc = "done" => "energy_efficiency.png" \in charts)

\* main has returned after an energy chart with one node plotted and one node
\* left out for its length
C9_Witness ==
    /\ pc = "done"
    /\ "energy_consumption.png" \in charts
    /\ plotted # <<>>
    /\ \E n \in KeySet(node_energy) : Len(GetItem(node_energy, n)) # Len(times)

\* C10: after parse_energy_log has returned, no step changes node_energy or
\* times.
C10_SeriesFrozenAfterParse ==
    [][ret = "tuple" => (node_energy' = node_energy /\ times' = times)]_vars

\* the average was computed while some node had fewer readings than there are
\* time markers
C10_Witness ==
    /\ pc = "plot_lifetime"
    /\ \E n \in KeySet(node_energy) : Len(GetItem(node_energy, n)) < Len(times)
====
